---- MODULE Spec2Model ----
(***************************************************************************)
(* Model of src/datasets.py (loadsnap) and src/graphs.py                   *)
(* (create_connected_graph, get_neighborhood_indices).                     *)
(*                                                                         *)
(* One call is made per behaviour: the Call_* actions draw the arguments   *)
(* from bounded sets, the remaining actions are the steps of the called    *)
(* function.  Matrices are 0-based functions [0..m-1 -> [0..m-1 -> Nat]].  *)
(* A networkx Graph is the record [nodes, adj]: nodes is the insertion     *)
(* order of the nodes, adj maps every node to the set of its neighbours.   *)
(***************************************************************************)
EXTENDS Integers, Sequences, FiniteSets, TLC

VARIABLES
    call,             \* the function being executed, "none" before the call
    pc,               \* position inside the function
    error,            \* the exception that ended the call, NoError otherwise
    lines,            \* loadsnap: the lines of the file, each split in tokens
    lineno,           \* loadsnap: number of lines consumed by the for loop
    edges_to_add,     \* loadsnap: the set of canonical pairs
    n,                \* create_connected_graph: argument n
    edge_probability, \* create_connected_graph: argument, in units of 1/Scale
    i, j,             \* create_connected_graph: the pair the loops stand at
    g0,               \* history: the graph as the sampling loops left it
    repairs,          \* history: iterations of the while loop so far
    g,                \* the networkx graph under construction
    adj_matrix,       \* returned adjacency matrix
    deg_matrix,       \* returned degree matrix
    indices,          \* get_neighborhood_indices: argument indices
    adj_mat,          \* get_neighborhood_indices: argument adj_mat
    final_indices     \* get_neighborhood_indices: returned list

vars == <<call, pc, error, lines, lineno, edges_to_add, n, edge_probability,
          i, j, g0, repairs, g, adj_matrix, deg_matrix, indices, adj_mat,
          final_indices>>

loadVars == <<lines, lineno, edges_to_add>>
genVars  == <<n, edge_probability, i, j, g0, repairs>>
nbrVars  == <<indices, adj_mat, final_indices>>
outVars  == <<g, adj_matrix, deg_matrix>>

-----------------------------------------------------------------------------
(* Bounds *)

MaxLines == 3      \* longest enumerated edge-list file
MaxN     == 4      \* largest n given to create_connected_graph
Scale    == 3      \* random.random() and edge_probability in steps of 1/Scale
MaxM     == 3      \* largest matrix given to get_neighborhood_indices
MaxSeeds == 2      \* longest seed list

-----------------------------------------------------------------------------
(* Generic helpers *)

Min2(a, b) == IF a <= b THEN a ELSE b
Max2(a, b) == IF a >= b THEN a ELSE b

SetMin(S) == CHOOSE x \in S : \A y \in S : x <= y

Range(s) == {s[k] : k \in DOMAIN s}

\* sorted(list(S)) for a finite set of integers
RECURSIVE SortedList(_)
SortedList(S) ==
    IF S = {} THEN <<>>
    ELSE LET m == SetMin(S) IN <<m>> \o SortedList(S \ {m})

NoError == [type |-> "none", msg |-> ""]

-----------------------------------------------------------------------------
(* networkx.Graph *)

EmptyGraph == [nodes |-> <<>>, adj |-> <<>>]

NodeSet(gr) == Range(gr.nodes)

add_node(gr, v) ==
    IF v \in NodeSet(gr) THEN gr
    ELSE [nodes |-> Append(gr.nodes, v),
          adj   |-> [x \in NodeSet(gr) \cup {v} |->
                        IF x = v THEN {} ELSE gr.adj[x]]]

RECURSIVE add_nodes_from(_, _)
add_nodes_from(gr, seq) ==
    IF seq = <<>> THEN gr
    ELSE add_nodes_from(add_node(gr, Head(seq)), Tail(seq))

add_edge(gr, u, v) ==
    LET h == add_node(add_node(gr, u), v) IN
    [nodes |-> h.nodes,
     adj   |-> [x \in NodeSet(h) |->
                   h.adj[x] \cup (IF x = u THEN {v} ELSE {})
                            \cup (IF x = v THEN {u} ELSE {})]]

RECURSIVE add_edges_from(_, _)
add_edges_from(gr, E) ==
    IF E = {} THEN gr
    ELSE LET e == CHOOSE e \in E : TRUE
         IN add_edges_from(add_edge(gr, e[1], e[2]), E \ {e})

\* the nodes a breadth-first search from the set seen reaches
RECURSIVE plain_bfs(_, _)
plain_bfs(gr, seen) ==
    LET next == seen \cup UNION {gr.adj[x] : x \in seen}
    IN IF next = seen THEN seen ELSE plain_bfs(gr, next)

\* nx.is_connected(g), for a graph with at least one node
is_connected(gr) ==
    plain_bfs(gr, {gr.nodes[1]}) = NodeSet(gr)

\* list(nx.connected_components(g)): the components in the order in which
\* the node order first meets them
RECURSIVE components_from(_, _, _)
components_from(gr, k, seen) ==
    IF k > Len(gr.nodes) THEN <<>>
    ELSE IF gr.nodes[k] \in seen THEN components_from(gr, k + 1, seen)
    ELSE LET c == plain_bfs(gr, {gr.nodes[k]})
         IN <<c>> \o components_from(gr, k + 1, seen \cup c)

connected_components(gr) == components_from(gr, 1, {})

-----------------------------------------------------------------------------
(* Matrices *)

NoMatrix == <<>>

Size(mat) == Cardinality(DOMAIN mat)

\* nx.adjacency_matrix(g).astype(float64).tocsc(): rows and columns follow
\* the node order of g, an edge gives a 1 in both triangles
adjacency_matrix(gr) ==
    LET m == Len(gr.nodes) IN
    [r \in 0..(m - 1) |-> [c \in 0..(m - 1) |->
        IF gr.nodes[c + 1] \in gr.adj[gr.nodes[r + 1]] THEN 1 ELSE 0]]

RECURSIVE SumTo(_, _)
SumTo(row, k) == IF k < 0 THEN 0 ELSE row[k] + SumTo(row, k - 1)

\* faulty variant of row_sums: the last column is left out of the sum
row_sums_short(mat) == [r \in DOMAIN mat |-> SumTo(mat[r], Size(mat) - 2)]

\* np.array(adj_matrix.sum(axis=1)).flatten()
row_sums(mat) == [r \in DOMAIN mat |-> SumTo(mat[r], Size(mat) - 1)]

\* sp.diags(degrees, format='csc')
diags(degrees) ==
    [r \in DOMAIN degrees |-> [c \in DOMAIN degrees |->
        IF r = c THEN degrees[r] ELSE 0]]

-----------------------------------------------------------------------------
(* loadsnap: lines and tokens *)

\* A line is the sequence of its whitespace-separated tokens (line.strip()
\* followed by line.split()); a token is the sequence of its characters.
Digits == {"0", "1", "2", "3", "4", "5", "6", "7", "8", "9"}

DigitVal(c) ==
    CASE c = "0" -> 0 [] c = "1" -> 1 [] c = "2" -> 2 [] c = "3" -> 3
      [] c = "4" -> 4 [] c = "5" -> 5 [] c = "6" -> 6 [] c = "7" -> 7
      [] c = "8" -> 8 [] c = "9" -> 9

Unsigned(tok) == IF tok[1] \in {"+", "-"} THEN Tail(tok) ELSE tok

\* int(tok) does not raise ValueError: an optional sign, then digits (the
\* tokens of the files below hold digits, signs, '.', '#' and letters only)
is_int(tok) ==
    /\ Unsigned(tok) # <<>>
    /\ \A k \in DOMAIN Unsigned(tok) : Unsigned(tok)[k] \in Digits

RECURSIVE DigitsValue(_)
DigitsValue(ds) ==
    IF ds = <<>> THEN 0
    ELSE 10 * DigitsValue(SubSeq(ds, 1, Len(ds) - 1)) + DigitVal(ds[Len(ds)])

\* int(tok), for a token int accepts
int_value(tok) ==
    IF tok[1] = "-" THEN 0 - DigitsValue(Unsigned(tok))
    ELSE DigitsValue(Unsigned(tok))

\* line.startswith('#') or not line
is_comment_or_blank(line) == IF line = <<>> THEN TRUE ELSE line[1][1] = "#"

\* len(parts) < 2
is_short(line) == Len(line) < 2

\* int(parts[0]) and int(parts[1]) both succeed
has_int_nodes(line) == IF is_int(line[1]) THEN is_int(line[2]) ELSE FALSE

\* faulty variant of add_canonical: the pair is stored as read
add_canonical_unordered(E, u, v) ==
    IF u # v THEN E \cup {<<u, v>>} ELSE E

\* faulty variant of add_canonical: self-loops are kept
add_canonical_with_loops(E, u, v) == E \cup {<<Min2(u, v), Max2(u, v)>>}

\* if u != v: edges_to_add.add((min(u, v), max(u, v)))
add_canonical(E, u, v) ==
    IF u # v THEN E \cup {<<Min2(u, v), Max2(u, v)>>} ELSE E

\* all_nodes: the endpoints of the pairs
all_nodes(E) == {e[1] : e \in E} \cup {e[2] : e \in E}

\* faulty variant of node_order: descending
RECURSIVE DescendingList(_)
DescendingList(S) ==
    IF S = {} THEN <<>>
    ELSE LET m == SetMin(S) IN DescendingList(S \ {m}) \o <<m>>

node_order_desc(S) == DescendingList(S)

\* sorted(list(all_nodes))
node_order(S) == SortedList(S)

T1   == <<"1">>
T10  == <<"1", "0">>
Tm2  == <<"-", "2">>

LineAlphabet ==
    { <<T1, T10>>,                      \* 1 10
      <<T10, T1>>,                      \* 10 1
      <<Tm2, T1>>,                      \* -2 1
      <<T10, Tm2>>,                     \* 10 -2
      <<T1, T1>>,                       \* 1 1
      <<<<"+", "1">>, T10, <<"x">>>>,   \* +1 10 x
      <<>>,                             \* blank
      <<<<"#">>, T1, T10>>,             \* # 1 10
      <<<<"#", "1">>, T10>>,            \* #1 10
      <<T1>>,                           \* 1
      <<<<"a">>, T1>>,                  \* a 1
      <<T1, <<"1", ".", "5">>>> }       \* 1 1.5

\* the sample file written by the example of datasets.py
ExampleFile ==
    << <<<<"#">>, <<"S">>>>,
       <<<<"0">>, <<"1">>>>, <<<<"0">>, <<"2">>>>, <<<<"1">>, <<"2">>>>,
       <<<<"2">>, <<"3">>>>, <<<<"3">>, <<"3">>>>, <<<<"0">>, <<"1">>>> >>

Files ==
    UNION {[1..k -> LineAlphabet] : k \in 0..MaxLines} \cup {ExampleFile}

-----------------------------------------------------------------------------
(* State *)

Init ==
    /\ call = "none"
    /\ pc = "idle"
    /\ error = NoError
    /\ lines = <<>>
    /\ lineno = 0
    /\ edges_to_add = {}
    /\ n = 0
    /\ edge_probability = 0
    /\ i = 0
    /\ j = 0
    /\ g0 = EmptyGraph
    /\ repairs = 0
    /\ g = EmptyGraph
    /\ adj_matrix = NoMatrix
    /\ deg_matrix = NoMatrix
    /\ indices = <<>>
    /\ adj_mat = NoMatrix
    /\ final_indices = <<>>

-----------------------------------------------------------------------------
(* loadsnap *)

Call_loadsnap ==
    /\ pc = "idle"
    /\ \E file \in Files : lines' = file
    /\ call' = "loadsnap"
    /\ pc' = "read"
    /\ UNCHANGED <<error, lineno, edges_to_add, genVars, outVars, nbrVars>>

CurrentLine == lines[lineno + 1]

Reading == call = "loadsnap" /\ pc = "read" /\ lineno < Len(lines)

SkipLine ==
    /\ lineno' = lineno + 1
    /\ UNCHANGED <<call, pc, error, lines, edges_to_add, genVars, outVars,
                   nbrVars>>

\* lines 32-34
ReadCommentOrBlank ==
    /\ Reading
    /\ is_comment_or_blank(CurrentLine)
    /\ SkipLine

\* lines 36-39
ReadShort ==
    /\ Reading
    /\ ~is_comment_or_blank(CurrentLine)
    /\ is_short(CurrentLine)
    /\ SkipLine

\* faulty variant of ReadNonInteger: the loop is left at the bad line
ReadNonInteger_break ==
    /\ Reading
    /\ ~is_comment_or_blank(CurrentLine)
    /\ ~is_short(CurrentLine)
    /\ ~has_int_nodes(CurrentLine)
    /\ lineno' = Len(lines)
    /\ UNCHANGED <<call, pc, error, lines, edges_to_add, genVars, outVars,
                   nbrVars>>

\* lines 41-44, 69-71
ReadNonInteger ==
    /\ Reading
    /\ ~is_comment_or_blank(CurrentLine)
    /\ ~is_short(CurrentLine)
    /\ ~has_int_nodes(CurrentLine)
    /\ SkipLine

\* lines 41-67
ReadEdge ==
    /\ Reading
    /\ ~is_comment_or_blank(CurrentLine)
    /\ ~is_short(CurrentLine)
    /\ has_int_nodes(CurrentLine)
    /\ edges_to_add' = add_canonical(edges_to_add,
                                     int_value(CurrentLine[1]),
                                     int_value(CurrentLine[2]))
    /\ lineno' = lineno + 1
    /\ UNCHANGED <<call, pc, error, lines, genVars, outVars, nbrVars>>

\* lines 75-82
BuildGraph ==
    /\ call = "loadsnap" /\ pc = "read" /\ lineno = Len(lines)
    /\ g' = add_edges_from(
                add_nodes_from(EmptyGraph, node_order(all_nodes(edges_to_add))),
                edges_to_add)
    /\ pc' = "matrices"
    /\ UNCHANGED <<call, error, loadVars, genVars, adj_matrix, deg_matrix,
                   nbrVars>>

\* lines 90-96; nx.adjacency_matrix raises NetworkXError for a graph
\* without nodes
LoadMatrices ==
    /\ call = "loadsnap" /\ pc = "matrices"
    /\ IF Len(g.nodes) = 0
       THEN /\ pc' = "raised"
            /\ error' = [type |-> "NetworkXError",
                         msg  |-> "Graph has no nodes or edges"]
            /\ UNCHANGED <<adj_matrix, deg_matrix>>
       ELSE /\ pc' = "done"
            /\ adj_matrix' = adjacency_matrix(g)
            /\ deg_matrix' = diags(row_sums(adjacency_matrix(g)))
            /\ UNCHANGED error
    /\ UNCHANGED <<call, loadVars, genVars, g, nbrVars>>

loadsnap ==
    \/ Call_loadsnap
    \/ ReadCommentOrBlank
    \/ ReadShort
    \/ ReadNonInteger
    \/ ReadEdge
    \/ BuildGraph
    \/ LoadMatrices

-----------------------------------------------------------------------------
(* create_connected_graph *)

\* edge_probability and the values of random.random() are multiples of
\* 1/Scale: edge_probability = k stands for k/Scale, and random.random()
\* returns a value of [0.0, 1.0), that is r/Scale with r in 0..Scale-1.
RandomValues == 0..(Scale - 1)

\* not 0 <= edge_probability <= 1
bad_probability(p) == ~(0 <= p /\ p <= Scale)

\* random.random() <= edge_probability
sample_edge(r, p) == r <= p

\* g.add_nodes_from(range(n)) on a new graph
initial_graph(k) == add_nodes_from(EmptyGraph, [x \in 1..k |-> x - 1])

\* faulty variant of while_cond: the loop is left with two components
while_cond_off_by_one(gr) ==
    IF is_connected(gr) THEN FALSE ELSE Len(connected_components(gr)) > 2

\* while not nx.is_connected(g), without the break of line 36
while_cond(gr) ==
    IF is_connected(gr) THEN FALSE ELSE Len(connected_components(gr)) > 1

\* faulty variant of sample_two: the two positions may coincide
sample_two_with_replacement(len) == (1..len) \X (1..len)

\* random.sample(range(len(components)), 2): two different positions
sample_two(len) == {p \in (1..len) \X (1..len) : p[1] # p[2]}

Call_create_connected_graph ==
    /\ pc = "idle"
    /\ \E k \in 0..MaxN, p \in (0 - 1)..(Scale + 1) :
         /\ n' = k
         /\ edge_probability' = p
         /\ IF bad_probability(p)
            THEN /\ pc' = "raised"
                 /\ error' = [type |-> "ValueError",
                              msg  |-> "edge_probability must be between 0 and 1"]
                 /\ UNCHANGED <<g, i, j, g0>>
            ELSE IF k < 1
            THEN /\ pc' = "raised"
                 /\ error' = [type |-> "ValueError",
                              msg  |-> "n must be greater than 0"]
                 /\ UNCHANGED <<g, i, j, g0>>
            ELSE /\ g' = initial_graph(k)
                 /\ i' = 0
                 /\ j' = 1
                 /\ pc' = IF k > 1 THEN "sample" ELSE "repair"
                 /\ g0' = IF k > 1 THEN g0 ELSE initial_graph(k)
                 /\ UNCHANGED error
    /\ call' = "create_connected_graph"
    /\ UNCHANGED <<loadVars, repairs, adj_matrix, deg_matrix, nbrVars>>

\* lines 28-31: one pass of the inner loop, for the pair (i, j)
SamplePair ==
    /\ call = "create_connected_graph" /\ pc = "sample"
    /\ \E r \in RandomValues :
         LET h == IF sample_edge(r, edge_probability)
                  THEN add_edge(g, i, j) ELSE g
             last == (j + 1 >= n) /\ (i + 2 >= n)
         IN /\ g' = h
            /\ IF j + 1 < n
               THEN i' = i /\ j' = j + 1
               ELSE IF i + 2 < n
               THEN i' = i + 1 /\ j' = i + 2
               ELSE UNCHANGED <<i, j>>
            /\ pc' = IF last THEN "repair" ELSE "sample"
            /\ g0' = IF last THEN h ELSE g0
    /\ UNCHANGED <<call, error, loadVars, n, edge_probability, repairs,
                   adj_matrix, deg_matrix, nbrVars>>

\* lines 34-46: one iteration of the while loop
Repair ==
    /\ call = "create_connected_graph" /\ pc = "repair"
    /\ while_cond(g)
    /\ LET components == connected_components(g) IN
       \E p \in sample_two(Len(components)) :
         \E node1 \in components[p[1]], node2 \in components[p[2]] :
            g' = add_edge(g, node1, node2)
    /\ repairs' = repairs + 1
    /\ UNCHANGED <<call, pc, error, loadVars, n, edge_probability, i, j, g0,
                   adj_matrix, deg_matrix, nbrVars>>

\* lines 49-61: the loop is left, the assertion, the matrices
Finish ==
    /\ call = "create_connected_graph" /\ pc = "repair"
    /\ ~while_cond(g)
    /\ IF is_connected(g)
       THEN /\ pc' = "done"
            /\ adj_matrix' = adjacency_matrix(g)
            /\ deg_matrix' = diags(row_sums(adjacency_matrix(g)))
            /\ UNCHANGED error
       ELSE /\ pc' = "raised"
            /\ error' = [type |-> "AssertionError",
                         msg  |-> "Graph could not be connected."]
            /\ UNCHANGED <<adj_matrix, deg_matrix>>
    /\ UNCHANGED <<call, loadVars, genVars, g, nbrVars>>

create_connected_graph ==
    \/ Call_create_connected_graph
    \/ SamplePair
    \/ Repair
    \/ Finish

-----------------------------------------------------------------------------
(* get_neighborhood_indices *)

\* the symmetric 0/1 matrix of size m with a 1 at (r, c) and (c, r) for
\* every pair <<r, c>> of E, r <= c
SymmetricMatrix(m, E) ==
    [r \in 0..(m - 1) |-> [c \in 0..(m - 1) |->
        IF <<Min2(r, c), Max2(r, c)>> \in E THEN 1 ELSE 0]]

UpperPairs(m) == {p \in (0..(m - 1)) \X (0..(m - 1)) : p[1] <= p[2]}

Matrices ==
    UNION {{SymmetricMatrix(m, E) : E \in SUBSET UpperPairs(m)} : m \in 0..MaxM}

SeedLists == UNION {[1..k -> (0 - 1)..MaxM] : k \in 0..MaxSeeds}

SeqMax(s) == CHOOSE x \in Range(s) : \A y \in Range(s) : y <= x
SeqMin(s) == CHOOSE x \in Range(s) : \A y \in Range(s) : x <= y

\* the row indices of the stored entries of column c, ascending
column_rows(mat, c) == SortedList({r \in DOMAIN mat : mat[r][c] # 0})

RECURSIVE csc_indices(_, _)
csc_indices(mat, c) ==
    IF c >= Size(mat) THEN <<>>
    ELSE column_rows(mat, c) \o csc_indices(mat, c + 1)

RECURSIVE csc_indptr_at(_, _)
csc_indptr_at(mat, c) ==
    IF c = 0 THEN 0
    ELSE csc_indptr_at(mat, c - 1) + Len(column_rows(mat, c - 1))

\* adj_mat.tocsc(): indptr is 0-based with Size + 1 entries, indices is the
\* array of row indices, column after column (position k of the array is
\* element k + 1 of the sequence)
tocsc(mat) ==
    [indptr  |-> [c \in 0..Size(mat) |-> csc_indptr_at(mat, c)],
     indices |-> csc_indices(mat, 0)]

\* faulty variant of neighbors: the last stored entry of the column is lost
neighbors_short(csc, idx) ==
    LET start_ptr == csc.indptr[idx]
        end_ptr   == csc.indptr[idx + 1]
    IN {csc.indices[k + 1] : k \in start_ptr..(end_ptr - 2)}

\* adj_mat.indices[adj_mat.indptr[idx] : adj_mat.indptr[idx + 1]]
neighbors(csc, idx) ==
    LET start_ptr == csc.indptr[idx]
        end_ptr   == csc.indptr[idx + 1]
    IN {csc.indices[k + 1] : k \in start_ptr..(end_ptr - 1)}

\* lines 87-97
neighborhood(seeds, csc) ==
    SortedList(Range(seeds) \cup UNION {neighbors(csc, seeds[k]) : k \in DOMAIN seeds})

\* faulty variant of validate: the two checks in the other order
validate_swapped(seeds, mat) ==
    IF seeds # <<>> /\ SeqMin(seeds) < 0
    THEN [type |-> "ValueError", msg |-> "Indices must be non-negative"]
    ELSE IF seeds # <<>> /\ SeqMax(seeds) >= Size(mat)
    THEN [type |-> "ValueError",
          msg  |-> "An index in 'indices' is out of bounds for the graph size"]
    ELSE NoError

\* lines 74-78: the exception the argument checks raise, NoError if none
validate(seeds, mat) ==
    IF seeds # <<>> /\ SeqMax(seeds) >= Size(mat)
    THEN [type |-> "ValueError",
          msg  |-> "An index in 'indices' is out of bounds for the graph size"]
    ELSE IF seeds # <<>> /\ SeqMin(seeds) < 0
    THEN [type |-> "ValueError", msg |-> "Indices must be non-negative"]
    ELSE NoError

\* lines 74-81
Call_get_neighborhood_indices ==
    /\ pc = "idle"
    /\ \E seeds \in SeedLists, mat \in Matrices :
         /\ indices' = seeds
         /\ adj_mat' = mat
         /\ error' = validate(seeds, mat)
         /\ pc' = IF validate(seeds, mat) # NoError THEN "raised"
                  ELSE IF seeds = <<>> THEN "done" ELSE "expand"
    /\ call' = "get_neighborhood_indices"
    /\ UNCHANGED <<loadVars, genVars, outVars, final_indices>>

\* lines 84-101
Expand ==
    /\ call = "get_neighborhood_indices" /\ pc = "expand"
    /\ LET result == neighborhood(indices, tocsc(adj_mat)) IN
       IF \A k \in DOMAIN indices : indices[k] \in Range(result)
       THEN /\ final_indices' = result
            /\ pc' = "done"
            /\ UNCHANGED error
       ELSE /\ pc' = "raised"
            /\ error' = [type |-> "AssertionError",
                         msg  |-> "Input indices are not a subset of the result."]
            /\ UNCHANGED final_indices
    /\ UNCHANGED <<call, loadVars, genVars, outVars, indices, adj_mat>>

get_neighborhood_indices ==
    \/ Call_get_neighborhood_indices
    \/ Expand

Next == loadsnap \/ create_connected_graph \/ get_neighborhood_indices

Spec == Init /\ [][Next]_vars

-----------------------------------------------------------------------------
(* Properties: shared definitions *)

InLoad == call = "loadsnap"
InGen  == call = "create_connected_graph"
InNbr  == call = "get_neighborhood_indices"

SetMax(S) == CHOOSE x \in S : \A y \in S : y <= x

\* every cut of the node set is crossed by an edge
SingleComponent(gr) ==
    \A S \in SUBSET NodeSet(gr) :
        (S # {} /\ S # NodeSet(gr)) =>
            \E u \in S, v \in NodeSet(gr) \ S : v \in gr.adj[u]

\* the ordered pairs (u, v) with v a neighbour of u
Arcs(gr) == {e \in NodeSet(gr) \X NodeSet(gr) : e[2] \in gr.adj[e[1]]}

EdgeCount(gr) == Cardinality({e \in Arcs(gr) : e[1] <= e[2]})

StrictlyAscending(s) == \A k \in 1..(Len(s) - 1) : s[k] < s[k + 1]

\* a line loadsnap is meant to skip: blank, comment, fewer than two tokens,
\* or first two tokens not both integers
Skipped(line) ==
    IF line = <<>> THEN TRUE
    ELSE IF line[1][1] = "#" THEN TRUE
    ELSE IF Len(line) < 2 THEN TRUE
    ELSE ~(is_int(line[1]) /\ is_int(line[2]))

NotSkipped(line) == ~Skipped(line)

Kept(ls) == SelectSeq(ls, NotSkipped)

\* the unordered endpoint sets of the well-formed lines: a set, so blind to
\* repetition, to the order of the lines and to the order inside a line
EndpointSets(ls) ==
    {{int_value(ls[k][1]), int_value(ls[k][2])} :
        k \in {k \in DOMAIN ls : NotSkipped(ls[k])}}

ProperPairs(ls) == {S \in EndpointSets(ls) : Cardinality(S) = 2}

CanonicalPairs(ls) == {<<SetMin(S), SetMax(S)>> : S \in ProperPairs(ls)}

\* the element of S with exactly k smaller elements
NodeAt(S, k) == CHOOSE x \in S : Cardinality({y \in S : y < x}) = k

ValidGenArgs == n >= 1 /\ 0 <= edge_probability /\ edge_probability <= Scale

-----------------------------------------------------------------------------
(* C1: for valid n and edge_probability create_connected_graph never raises,
   in particular never fails its connectivity assertion, and the graph it
   returns is connected and has exactly the nodes 0..n-1. *)
C1_ConnectedOnReturn ==
    InGen =>
        /\ error.type # "AssertionError"
        /\ ValidGenArgs => pc # "raised"
        /\ pc = "done" =>
              /\ SingleComponent(g)
              /\ g.nodes = [x \in 1..n |-> x - 1]

C1_Witness ==
    InGen /\ pc = "done" /\ n >= 3 /\ repairs >= 1 /\ EdgeCount(g0) >= 1

(* C2: every iteration of the repair loop lowers the number of connected
   components by exactly one, so after k iterations c - k components are
   left of the c the sampling produced, and the loop runs at most c - 1
   times. *)
C2_RepairMergesTwo ==
    (InGen /\ pc \in {"repair", "done"}) =>
        /\ Len(connected_components(g)) + repairs
               = Len(connected_components(g0))
        /\ repairs <= Len(connected_components(g0)) - 1
        /\ pc = "done" => repairs = Len(connected_components(g0)) - 1

C2_Witness ==
    InGen /\ pc = "done" /\ repairs >= 2 /\ Len(connected_components(g0)) = 3

(* C3: once the lines are read, the edge set of loadsnap is the set of
   canonical pairs (min, max) of the two-element endpoint sets of the
   well-formed lines, and the graph has exactly these nodes and edges: the
   result depends on the lines only through that set, so repeated, reversed
   and reordered lines change nothing and a self-loop gives no edge. *)
C3_CanonicalEdgeSet ==
    (InLoad /\ pc \in {"matrices", "done", "raised"}) =>
        /\ edges_to_add = CanonicalPairs(lines)
        /\ NodeSet(g) = UNION ProperPairs(lines)
        /\ Arcs(g) = {e \in NodeSet(g) \X NodeSet(g) :
                         {e[1], e[2]} \in ProperPairs(lines)}

C3_Witness ==
    /\ InLoad /\ pc = "done"
    /\ {<<T1, T10>>, <<T10, T1>>, <<T1, T1>>} \subseteq Range(lines)
    /\ edges_to_add = {<<1, 10>>}

(* C4: the adjacency matrix returned by loadsnap and by
   create_connected_graph is symmetric, has entries 0 and 1 only and a zero
   diagonal. *)
C4_SymmetricZeroDiagonal ==
    ((InLoad \/ InGen) /\ pc = "done") =>
        /\ Size(adj_matrix) = Len(g.nodes)
        /\ \A r \in DOMAIN adj_matrix :
              /\ DOMAIN adj_matrix[r] = DOMAIN adj_matrix
              /\ adj_matrix[r][r] = 0
              /\ \A c \in DOMAIN adj_matrix :
                    /\ adj_matrix[r][c] \in {0, 1}
                    /\ adj_matrix[r][c] = adj_matrix[c][r]

C4_Witness ==
    InGen /\ pc = "done" /\ repairs >= 1 /\ Size(adj_matrix) >= 3

(* C5: the returned degree matrix is diagonal and its entry (i, i) is the
   number of non-zero entries of row i of the adjacency matrix, which is the
   number of neighbours of the node at index i; the sample file gives the
   degrees 2, 2, 3, 1. *)
C5_DegreeIsRowCount ==
    ((InLoad \/ InGen) /\ pc = "done") =>
        /\ DOMAIN deg_matrix = DOMAIN adj_matrix
        /\ \A r \in DOMAIN deg_matrix :
              /\ \A c \in DOMAIN deg_matrix : c # r => deg_matrix[r][c] = 0
              /\ deg_matrix[r][r] =
                    Cardinality({c \in DOMAIN adj_matrix : adj_matrix[r][c] # 0})
              /\ deg_matrix[r][r] = Cardinality(g.adj[g.nodes[r + 1]])
        /\ lines = ExampleFile =>
              [k \in 1..4 |-> deg_matrix[k - 1][k - 1]] = <<2, 2, 3, 1>>

C5_Witness == InLoad /\ pc = "done" /\ lines = ExampleFile

(* C6: for a symmetric 0/1 matrix and seeds inside [0, m),
   get_neighborhood_indices returns, strictly ascending, exactly the seeds
   and the indices adjacent to a seed; for no seeds it returns the empty
   list. *)
C6_ClosedNeighborhood ==
    InNbr =>
        /\ (\A k \in DOMAIN indices :
                0 <= indices[k] /\ indices[k] < Size(adj_mat)) => pc # "raised"
        /\ pc = "done" =>
              /\ StrictlyAscending(final_indices)
              /\ Range(final_indices) =
                    Range(indices) \cup
                    {c \in DOMAIN adj_mat :
                        \E k \in DOMAIN indices : adj_mat[indices[k]][c] = 1}
              /\ Range(final_indices) \subseteq 0..(Size(adj_mat) - 1)
              /\ indices = <<>> => final_indices = <<>>

C6_Witness ==
    /\ InNbr /\ pc = "done"
    /\ Len(indices) = 2 /\ indices[1] = indices[2]
    /\ Len(final_indices) = 3

OutOfBoundsError ==
    [type |-> "ValueError",
     msg  |-> "An index in 'indices' is out of bounds for the graph size"]

NegativeIndexError ==
    [type |-> "ValueError", msg |-> "Indices must be non-negative"]

HasTooLarge == \E k \in DOMAIN indices : indices[k] >= Size(adj_mat)
HasNegative == \E k \in DOMAIN indices : indices[k] < 0

FailedFast == pc = "raised" /\ final_indices = <<>>

(* C7 as stated: a seed list with an index >= the matrix size fails with the
   out-of-bounds error, a seed list with a negative index fails with the
   negative-index error, in both cases without a result. *)
C7_Original ==
    InNbr =>
        /\ HasTooLarge => (FailedFast /\ error = OutOfBoundsError)
        /\ HasNegative => (FailedFast /\ error = NegativeIndexError)

(* C7 amended: a seed list with an index >= the matrix size fails with the
   out-of-bounds error; a seed list with a negative index and no index >=
   the matrix size fails with the negative-index error; in both cases
   without a result. *)
C7_FailFast ==
    InNbr =>
        /\ HasTooLarge => (FailedFast /\ error = OutOfBoundsError)
        /\ (HasNegative /\ ~HasTooLarge) =>
              (FailedFast /\ error = NegativeIndexError)

C7_Witness ==
    InNbr /\ HasNegative /\ HasTooLarge /\ pc = "raised"

(* C8: with edge_probability 0 no pair is sampled, the repair loop runs
   exactly n - 1 times and the returned graph has n - 1 edges; for n = 1
   the degree matrix is [0]. *)
C8_ZeroProbabilityTree ==
    (InGen /\ n >= 1 /\ edge_probability = 0) =>
        /\ pc \in {"repair", "done"} => EdgeCount(g0) = 0
        /\ pc = "done" =>
              /\ repairs = n - 1
              /\ EdgeCount(g) = n - 1
              /\ n = 1 => deg_matrix = [r \in {0} |-> [c \in {0} |-> 0]]

(* C9: a blank line, a comment, a line of fewer than two tokens and a line
   whose first two tokens are not both integers leave the edge set as it is
   and the loop goes on to the next line; while reading, the edge set is
   that of the lines read so far with those lines removed. *)
C9_SkipBadLines ==
    /\ []((InLoad /\ pc = "read") =>
            /\ error = NoError
            /\ edges_to_add = CanonicalPairs(Kept(SubSeq(lines, 1, lineno))))
    /\ [][(Reading /\ Skipped(CurrentLine)) =>
            /\ edges_to_add' = edges_to_add
            /\ lineno' = lineno + 1
            /\ pc' = "read"
            /\ error' = NoError]_vars

C9_Witness ==
    /\ InLoad /\ pc = "done"
    /\ lines = << <<<<"a">>, T1>>, <<T1>>, <<T10, T1>> >>
    /\ edges_to_add = {<<1, 10>>}

(* C10: the nodes of the loaded graph are the endpoints of the retained
   edges, matrix index i stands for the i-th smallest node identifier, and
   adjacency entry (i, j) is 1 exactly when the canonical pair of the i-th
   and j-th smallest identifiers is in the edge set. *)
C10_SortedIndexMapping ==
    (InLoad /\ pc = "done") =>
        LET S == all_nodes(edges_to_add) IN
        /\ NodeSet(g) = S
        /\ Len(g.nodes) = Cardinality(S)
        /\ Size(adj_matrix) = Cardinality(S)
        /\ \A r \in DOMAIN adj_matrix :
              /\ g.nodes[r + 1] = NodeAt(S, r)
              /\ \A c \in DOMAIN adj_matrix :
                    adj_matrix[r][c] = 1 <=>
                        <<Min2(NodeAt(S, r), NodeAt(S, c)),
                          Max2(NodeAt(S, r), NodeAt(S, c))>> \in edges_to_add

C10_Witness ==
    /\ InLoad /\ pc = "done"
    /\ lines[1] = <<T10, Tm2>>
    /\ g.nodes = <<0 - 2, 1, 10>>
    /\ adj_matrix[0][1] = 1 /\ adj_matrix[1][2] = 0

====
